---- MODULE Spec2Model ----
(***************************************************************************)
(* Model of src/index.js: the timers HTTP API (POST /api/timers,           *)
(* POST /api/timers/:id/stop, /login, /logout), the WebSocket upgrade gate, *)
(* the `clients` registry, the all_timers / active_timers pushes and the   *)
(* one-second tick.                                                        *)
(*                                                                         *)
(* Node runs one callback at a time, so every action below is one          *)
(* uninterrupted stretch of JavaScript between two waits on I/O, or the    *)
(* moment at which the database applies one operation.                     *)
(***************************************************************************)
EXTENDS Integers, Sequences, FiniteSets, TLC

\* ---------------------------------------------------------------- bounds
MaxReqs == 1        \* Spec: HTTP requests received in one run
MaxChannels == 1    \* Spec: WebSocket upgrades accepted in one run
MaxTicks == 1       \* Spec: firings of the interval callback in one run
MaxTime == 1        \* Spec: the wall clock runs over 0..MaxTime
MaxSessions == 1    \* Spec: logins in one run
CmdReqs == 3        \* SpecCmd: HTTP requests received in one run
CmdChannels == 1    \* SpecCmd: WebSocket upgrades accepted in one run
CmdTime == 1        \* SpecCmd: the wall clock runs over 0..CmdTime
PushReqs == 2       \* SpecPush: HTTP requests received in one run
AuthReqs == 3       \* SpecAuth: HTTP requests received in one run
ActiveReqs == 1     \* SpecActive: HTTP requests received in one run
ActiveTicks == 1    \* SpecActive: firings of the interval callback in one run
ActiveTime == 1     \* SpecActive: the wall clock runs over 0..ActiveTime
ReflectReqs == 2    \* SpecReflect: HTTP requests received in one run
ReflectTime == 1    \* SpecReflect: the wall clock runs over 0..ReflectTime
RegistryChannels == 3 \* SpecRegistry: WebSocket upgrades accepted in one run
ChanReqs == 1       \* SpecChan: HTTP requests received in one run
ChanChannels == 2   \* SpecChan: WebSocket upgrades accepted in one run
TickReqs == 1       \* SpecTick: HTTP requests received in one run
TickChannels == 2   \* SpecTick: WebSocket upgrades accepted in one run
TickTicks == 1      \* SpecTick: firings of the interval callback in one run

\* ------------------------------------------------------------- constants
Users == {"A", "B"}          \* the _id values of the users collection
Descriptions == {"d"}        \* req.body.description
None == "none"               \* undefined
Empty == "empty"             \* key of a deleted Map entry
NoEnd == -1                  \* a timer document without an end field
NoWs == 0                    \* clients.get(userId) === undefined
NoCookie == 0                \* request without a sessionId cookie
NoSuchId == 0                \* an ObjectId that names no timer document
UnknownSid == -2             \* a sessionId cookie that was never issued

VARIABLES
    alive,        \* the node process is running
    now,          \* new Date()
    sessions,     \* collection "sessions": set of [sessionId, userId]
    issued,       \* number of session ids nanoid() has produced
    timers,       \* collection "timers": sequence of documents, id = index
    clients,      \* the Map `clients`, as its entry list in insertion order
    chan,         \* every WebSocket accepted so far, with its connection handler
    reqs,         \* every HTTP request received so far
    ticks,        \* every firing of the interval callback so far
    sent,         \* the message the last step handed to an open socket, if any
    resp,         \* the request whose handler ended in the last step, if any
    upgrade       \* the upgrade request the last step handled, if any

vars == <<alive, now, sessions, issued, timers, clients, chan, reqs, ticks, sent, resp, upgrade>>

\* ------------------------------------------------------- the Map `clients`
\* A JavaScript Map keeps its entries in insertion order; delete leaves a hole
\* that live iterators skip, set on an existing key keeps the entry's place.
MapHas(m, k) == \E i \in DOMAIN m : m[i].key = k

MapGet(m, k) ==
    IF MapHas(m, k) THEN m[CHOOSE i \in DOMAIN m : m[i].key = k].ws ELSE NoWs

\* a registry that adds an entry on every set
MapSetAppending(m, k, v) ==
    Append(m, [key |-> k, ws |-> v])

MapSet(m, k, v) ==
    IF MapHas(m, k)
    THEN [m EXCEPT ![CHOOSE i \in DOMAIN m : m[i].key = k].ws = v]
    ELSE Append(m, [key |-> k, ws |-> v])

\* a registry whose delete does nothing
MapDeleteNothing(m, k) ==
    m

MapDelete(m, k) ==
    [i \in DOMAIN m |-> IF m[i].key = k THEN [key |-> Empty, ws |-> NoWs] ELSE m[i]]

\* next() of a keys() iterator that has consumed the entries up to pos:
\* the index of the next live entry, 0 when the iteration is over.
MapNext(m, pos) ==
    LET S == {i \in (pos + 1)..Len(m) : m[i].key # Empty}
    IN  IF S = {} THEN 0 ELSE CHOOSE i \in S : \A j \in S : i <= j

\* ------------------------------------------------------------ persistence
findUserBySessionId(ss, sessionId) ==
    IF \E s \in ss : s.sessionId = sessionId
    THEN (CHOOSE s \in ss : s.sessionId = sessionId).userId
    ELSE None

\* a middleware that takes any sessionId cookie for a session of user A
authWithoutLookup(ss, cookie) ==
    IF cookie = NoCookie THEN None ELSE "A"

\* the auth() middleware: req.user
auth(ss, cookie) ==
    IF cookie = NoCookie THEN None ELSE findUserBySessionId(ss, cookie)

\* the document createTimer inserts
createTimer(ts, userId, description, start) ==
    Append(ts, [id |-> Len(ts) + 1, userId |-> userId, description |-> description,
                start |-> start, end |-> NoEnd])

\* a filter that forgets the owner: { _id: id }
stopTimerMatchesAnyOwner(t, id, userId) ==
    t.id = id

\* the filter of stopTimer's findOneAndUpdate: { _id: id, userId }
stopTimerMatches(t, id, userId) ==
    t.id = id /\ t.userId = userId

\* result.value of stopTimer's findOneAndUpdate is a document
stopTimerFound(ts, id, userId) ==
    \E i \in DOMAIN ts : stopTimerMatches(ts[i], id, userId)

\* an update that sets end to the epoch: $set: { end: new Date(0) }
stopTimerAtEpoch(ts, id, userId, end) ==
    [i \in DOMAIN ts |->
        IF stopTimerMatches(ts[i], id, userId) THEN [ts[i] EXCEPT !.end = 0] ELSE ts[i]]

\* the collection after stopTimer's findOneAndUpdate: $set: { end }
stopTimer(ts, id, userId, end) ==
    [i \in DOMAIN ts |->
        IF stopTimerMatches(ts[i], id, userId) THEN [ts[i] EXCEPT !.end = end] ELSE ts[i]]

\* a query that forgets the owner: find({})
fetchAllTimersOfEveryone(ts, userId) ==
    ts

\* find({ userId }).toArray()
fetchAllTimers(ts, userId) ==
    SelectSeq(ts, LAMBDA t : t.userId = userId)

\* a query that forgets the end condition: find({ userId })
fetchActiveTimersAnyEnd(ts, userId) ==
    SelectSeq(ts, LAMBDA t : t.userId = userId)

\* find({ $and: [{ userId }, { end: null }] }).toArray()
fetchActiveTimers(ts, userId) ==
    SelectSeq(ts, LAMBDA t : t.userId = userId /\ t.end = NoEnd)

\* a constructor that sets progress and duration on every view
TimerViewModelWithBoth(t, at) ==
    [id |-> t.id, userId |-> t.userId, description |-> t.description,
     start |-> t.start, end |-> t.end, isActive |-> (t.end = NoEnd),
     progress |-> at - t.start, duration |-> t.end - t.start]

\* new TimerViewModel(t), as JSON.stringify writes it at time `at`
TimerViewModel(t, at) ==
    IF t.end = NoEnd
    THEN [id |-> t.id, userId |-> t.userId, description |-> t.description,
          start |-> t.start, isActive |-> TRUE, progress |-> at - t.start]
    ELSE [id |-> t.id, userId |-> t.userId, description |-> t.description,
          start |-> t.start, end |-> t.end, isActive |-> FALSE,
          duration |-> t.end - t.start]

Views(docs, at) == [i \in DOMAIN docs |-> TimerViewModel(docs[i], at)]

\* ------------------------------------------------------------------ push
\* What clients.get(userId).send(msg) can do: with no entry the property
\* access on undefined throws a TypeError; on a socket that is OPEN the
\* message goes out; on a socket that is no longer OPEN the ws library either
\* throws or drops the message, depending on its version.
\* a send that never reaches the registered socket
SendOutcomesLost(cl, ch, userId) ==
    IF MapGet(cl, userId) = NoWs THEN {"TypeError"} ELSE {"dropped"}

SendOutcomes(cl, ch, userId) ==
    IF MapGet(cl, userId) = NoWs THEN {"TypeError"}
    ELSE IF ch[MapGet(cl, userId)].state = "open" THEN {"sent"}
    ELSE {"NotOpen", "dropped"}

\* the message, with the socket it goes to and the handler (src, n) that sends it
Message(type, docs, ws, src, n) ==
    [type |-> type, timers |-> Views(docs, now), to |-> ws, src |-> src, n |-> n]

NoMsg == [type |-> None, timers |-> <<>>, to |-> NoWs, src |-> None, n |-> 0]

NoUpgrade == [cookie |-> None, status |-> 0]

\* what is left in `reqs` of a request whose handler is over
Gone ==
    [kind |-> None, cookie |-> NoCookie, id |-> NoSuchId, user |-> None, pc |-> "done",
     time |-> 0, tid |-> NoSuchId, ok |-> FALSE, snap |-> <<>>, status |-> 0,
     err |-> None]

NoResp == [n |-> 0, req |-> Gone]

\* a step that writes to no socket, ends no request and handles no upgrade
Quiet == sent' = NoMsg /\ upgrade' = NoUpgrade /\ resp' = NoResp

\* ------------------------------------------------------------------ Init
\* A fresh process: nothing registered, no request under way. The database
\* is empty but for the users.
Init ==
    /\ alive = TRUE
    /\ now = 0
    /\ sessions = {}
    /\ issued = 0
    /\ timers = <<>>
    /\ clients = <<>>
    /\ chan = <<>>
    /\ reqs = <<>>
    /\ ticks = <<>>
    /\ sent = NoMsg
    /\ resp = NoResp
    /\ upgrade = NoUpgrade

\* The state after A and then B have logged in (Login("A"), Login("B")).
InitLoggedIn ==
    /\ alive = TRUE
    /\ now = 0
    /\ sessions = {[sessionId |-> 1, userId |-> "A"], [sessionId |-> 2, userId |-> "B"]}
    /\ issued = 2
    /\ timers = <<>>
    /\ clients = <<>>
    /\ chan = <<>>
    /\ reqs = <<>>
    /\ ticks = <<>>
    /\ sent = NoMsg
    /\ resp = NoResp
    /\ upgrade = NoUpgrade

\* The state after A alone has logged in (Login("A")).
InitOneUser ==
    /\ alive = TRUE
    /\ now = 0
    /\ sessions = {[sessionId |-> 1, userId |-> "A"]}
    /\ issued = 1
    /\ timers = <<>>
    /\ clients = <<>>
    /\ chan = <<>>
    /\ reqs = <<>>
    /\ ticks = <<>>
    /\ sent = NoMsg
    /\ resp = NoResp
    /\ upgrade = NoUpgrade

\* The state after A and then B have logged in, each has opened a socket
\* (Connection("A"), Connection("B")) and each socket has had its first push.
InitConnected ==
    /\ alive = TRUE
    /\ now = 0
    /\ sessions = {[sessionId |-> 1, userId |-> "A"], [sessionId |-> 2, userId |-> "B"]}
    /\ issued = 2
    /\ timers = <<>>
    /\ clients = <<[key |-> "A", ws |-> 1], [key |-> "B", ws |-> 2]>>
    /\ chan = <<[userId |-> "A", state |-> "open", pc |-> "done", snap |-> <<>>,
                 err |-> None],
                [userId |-> "B", state |-> "open", pc |-> "done", snap |-> <<>>,
                 err |-> None]>>
    /\ reqs = <<>>
    /\ ticks = <<>>
    /\ sent = NoMsg
    /\ resp = NoResp
    /\ upgrade = NoUpgrade

\* InitConnected after A has started two timers and stopped the second and B
\* has started one, all at time 0, and every request has been answered.
InitBusy ==
    /\ alive = TRUE
    /\ now = 0
    /\ sessions = {[sessionId |-> 1, userId |-> "A"], [sessionId |-> 2, userId |-> "B"]}
    /\ issued = 2
    /\ timers = <<[id |-> 1, userId |-> "A", description |-> "d", start |-> 0,
                   end |-> NoEnd],
                  [id |-> 2, userId |-> "A", description |-> "d", start |-> 0,
                   end |-> 0],
                  [id |-> 3, userId |-> "B", description |-> "d", start |-> 0,
                   end |-> NoEnd]>>
    /\ clients = <<[key |-> "A", ws |-> 1], [key |-> "B", ws |-> 2]>>
    /\ chan = <<[userId |-> "A", state |-> "open", pc |-> "done", snap |-> <<>>,
                 err |-> None],
                [userId |-> "B", state |-> "open", pc |-> "done", snap |-> <<>>,
                 err |-> None]>>
    /\ reqs = <<>>
    /\ ticks = <<>>
    /\ sent = NoMsg
    /\ resp = NoResp
    /\ upgrade = NoUpgrade

\* the clock moves on
Advance ==
    /\ alive
    /\ now' = now + 1
    /\ Quiet
    /\ UNCHANGED <<alive, sessions, issued, timers, clients, chan, reqs, ticks>>

\* -------------------------------------------------------------- sessions
\* POST /login with the right password: createSession, then the response
\* sets the sessionId and userId cookies.
Login(u) ==
    /\ alive
    /\ issued' = issued + 1
    /\ sessions' = sessions \cup {[sessionId |-> issued + 1, userId |-> u]}
    /\ Quiet
    /\ UNCHANGED <<alive, now, timers, clients, chan, reqs, ticks>>

\* ---------------------------------------------------------- HTTP requests
\* The request object once auth() has run. The session lookup and the start
\* of the route handler are one step: the handler reads nothing the lookup
\* could have changed.
Request(kind, cookie, id) ==
    [kind |-> kind, cookie |-> cookie, id |-> id, user |-> auth(sessions, cookie),
     pc |-> "handler", time |-> 0, tid |-> NoSuchId, ok |-> FALSE, snap |-> <<>>,
     status |-> 0, err |-> None]

\* the request as res.sendStatus / res.status().send leaves it
Respond(req, status) ==
    [req EXCEPT !.pc = "done", !.status = status]

\* The handler of request r is over and leaves req behind: the step shows it
\* in resp, and nothing of a finished request is kept after that.
Ends(r, req) ==
    /\ reqs' = [reqs EXCEPT ![r] = Gone]
    /\ resp' = [n |-> r, req |-> req]

\* a request that is over before its first wait
Arrives(req) ==
    IF req.pc = "done"
    THEN reqs' = Append(reqs, Gone) /\ resp' = [n |-> Len(reqs) + 1, req |-> req]
    ELSE reqs' = Append(reqs, req) /\ resp' = NoResp

\* An async route handler rejects. Express 5 hands the rejection to the error
\* middleware (500); Express 4 leaves it unhandled, and node then either only
\* warns (the request is never answered: status 0) or exits, depending on its
\* version.
HandlerRejects(r, err) ==
    \E o \in {"500", "hang", "crash"} :
        /\ Ends(r, [Respond(reqs[r], IF o = "500" THEN 500 ELSE 0) EXCEPT !.err = err])
        /\ alive' = (o # "crash")

\* a rejection in the connection listener or the interval callback is unhandled
Unhandled ==
    \E o \in {"ignored", "crash"} : alive' = (o # "crash")

\* app.post("/api/timers"): auth, the 401, createTimer up to its insertOne
PostTimers(cookie) ==
    /\ alive
    /\ LET req == Request("start", cookie, NoSuchId)
       IN  Arrives(IF req.user = None THEN Respond(req, 401)
                   ELSE [req EXCEPT !.pc = "insert", !.time = now])
    /\ sent' = NoMsg /\ upgrade' = NoUpgrade
    /\ UNCHANGED <<alive, now, sessions, issued, timers, clients, chan, ticks>>

\* the database applies createTimer's insertOne
CreateTimerDb(r) ==
    /\ alive
    /\ r \in DOMAIN reqs
    /\ reqs[r].pc = "insert"
    /\ \E d \in Descriptions :
          timers' = createTimer(timers, reqs[r].user, d, reqs[r].time)
    /\ reqs' = [reqs EXCEPT ![r].pc = "fetch", ![r].tid = Len(timers) + 1]
    /\ Quiet
    /\ UNCHANGED <<alive, now, sessions, issued, clients, chan, ticks>>

\* app.post("/api/timers/:id/stop"): auth, the 401, stopTimer up to its findOneAndUpdate
PostStop(cookie, id) ==
    /\ alive
    /\ LET req == Request("stop", cookie, id)
       IN  Arrives(IF req.user = None THEN Respond(req, 401)
                   ELSE [req EXCEPT !.pc = "update", !.time = now])
    /\ sent' = NoMsg /\ upgrade' = NoUpgrade
    /\ UNCHANGED <<alive, now, sessions, issued, timers, clients, chan, ticks>>

\* the database applies stopTimer's findOneAndUpdate; false is answered 404
StopTimerDb(r) ==
    /\ alive
    /\ r \in DOMAIN reqs
    /\ reqs[r].pc = "update"
    /\ IF stopTimerFound(timers, reqs[r].id, reqs[r].user)
       THEN /\ timers' = stopTimer(timers, reqs[r].id, reqs[r].user, reqs[r].time)
            /\ reqs' = [reqs EXCEPT ![r].pc = "fetch", ![r].ok = TRUE]
            /\ resp' = NoResp
       ELSE /\ timers' = timers
            /\ Ends(r, Respond(reqs[r], 404))
    /\ sent' = NoMsg /\ upgrade' = NoUpgrade
    /\ UNCHANGED <<alive, now, sessions, issued, clients, chan, ticks>>

\* sendAllTimersMsg in a route handler: the database answers fetchAllTimers
FetchAllDb(r) ==
    /\ alive
    /\ r \in DOMAIN reqs
    /\ reqs[r].pc = "fetch"
    /\ reqs' = [reqs EXCEPT ![r].pc = "send",
                            ![r].snap = fetchAllTimers(timers, reqs[r].user)]
    /\ Quiet
    /\ UNCHANGED <<alive, now, sessions, issued, timers, clients, chan, ticks>>

\* the status a route answers once its push has returned
Answer(kind) == IF kind = "start" THEN 201 ELSE 204

\* sendAllTimersMsg in a route handler: clients.get(userId).send(msg), then
\* the response
sendAllTimersMsg(r) ==
    /\ alive
    /\ r \in DOMAIN reqs
    /\ reqs[r].pc = "send"
    /\ \E out \in SendOutcomes(clients, chan, reqs[r].user) :
          CASE out = "sent" ->
                  /\ sent' = Message("all_timers", reqs[r].snap,
                                     MapGet(clients, reqs[r].user), "req", r)
                  /\ Ends(r, Respond(reqs[r], Answer(reqs[r].kind)))
                  /\ alive' = alive
            [] out = "dropped" ->
                  /\ sent' = NoMsg
                  /\ Ends(r, Respond(reqs[r], Answer(reqs[r].kind)))
                  /\ alive' = alive
            [] OTHER ->
                  /\ sent' = NoMsg
                  /\ HandlerRejects(r, out)
    /\ upgrade' = NoUpgrade
    /\ UNCHANGED <<now, sessions, issued, timers, clients, chan, ticks>>

\* app.get("/logout"): auth, the redirect, deleteSession up to its deleteOne
GetLogout(cookie) ==
    /\ alive
    /\ LET req == Request("logout", cookie, NoSuchId)
       IN  Arrives(IF req.user = None THEN Respond(req, 302)
                   ELSE [req EXCEPT !.pc = "delete"])
    /\ sent' = NoMsg /\ upgrade' = NoUpgrade
    /\ UNCHANGED <<alive, now, sessions, issued, timers, clients, chan, ticks>>

\* the database applies deleteSession's deleteOne; the redirect follows
DeleteSessionDb(r) ==
    /\ alive
    /\ r \in DOMAIN reqs
    /\ reqs[r].pc = "delete"
    /\ sessions' = {s \in sessions : s.sessionId # reqs[r].cookie}
    /\ Ends(r, Respond(reqs[r], 302))
    /\ sent' = NoMsg /\ upgrade' = NoUpgrade
    /\ UNCHANGED <<alive, now, issued, timers, clients, chan, ticks>>

\* --------------------------------------------------------------- channels
\* server.on("upgrade") for a request that has no Cookie header:
\* cookie.parse(undefined) throws inside the listener, which nothing catches.
UpgradeNoCookieHeader ==
    /\ alive
    /\ alive' = FALSE
    /\ upgrade' = [cookie |-> "absent", status |-> 0]
    /\ sent' = NoMsg /\ resp' = NoResp
    /\ UNCHANGED <<now, sessions, issued, timers, clients, chan, reqs, ticks>>

\* server.on("upgrade") for a request whose cookies hold no userId
UpgradeNoUserId ==
    /\ alive
    /\ upgrade' = [cookie |-> "nouid", status |-> 401]
    /\ sent' = NoMsg /\ resp' = NoResp
    /\ UNCHANGED <<alive, now, sessions, issued, timers, clients, chan, reqs, ticks>>

\* server.on("upgrade") with a userId cookie, and wss.on("connection") up to
\* its first wait: the handshake completes, clients.set, ws.on("close").
Connection(userId) ==
    /\ alive
    /\ chan' = Append(chan, [userId |-> userId, state |-> "open", pc |-> "fetch",
                             snap |-> <<>>, err |-> None])
    /\ clients' = MapSet(clients, userId, Len(chan) + 1)
    /\ upgrade' = [cookie |-> userId, status |-> 101]
    /\ sent' = NoMsg /\ resp' = NoResp
    /\ UNCHANGED <<alive, now, sessions, issued, timers, reqs, ticks>>

\* a socket leaves readyState OPEN (close frame, transport error); its
\* "close" event has not been emitted yet
BeginClose(c) ==
    /\ alive
    /\ c \in DOMAIN chan
    /\ chan[c].state = "open"
    /\ chan' = [chan EXCEPT ![c].state = "closing"]
    /\ Quiet
    /\ UNCHANGED <<alive, now, sessions, issued, timers, clients, reqs, ticks>>

\* ws.on("close"): clients.delete(userId)
OnClose(c) ==
    /\ alive
    /\ c \in DOMAIN chan
    /\ chan[c].state = "closing"
    /\ chan' = [chan EXCEPT ![c].state = "closed"]
    /\ clients' = MapDelete(clients, chan[c].userId)
    /\ Quiet
    /\ UNCHANGED <<alive, now, sessions, issued, timers, reqs, ticks>>

\* wss.on("connection"): the database answers fetchAllTimers
ConnectionFetchDb(c) ==
    /\ alive
    /\ c \in DOMAIN chan
    /\ chan[c].pc = "fetch"
    /\ chan' = [chan EXCEPT ![c].pc = "send",
                            ![c].snap = fetchAllTimers(timers, chan[c].userId)]
    /\ Quiet
    /\ UNCHANGED <<alive, now, sessions, issued, timers, clients, reqs, ticks>>

\* wss.on("connection"): clients.get(userId).send(msg) of sendAllTimersMsg
ConnectionSend(c) ==
    /\ alive
    /\ c \in DOMAIN chan
    /\ chan[c].pc = "send"
    /\ \E out \in SendOutcomes(clients, chan, chan[c].userId) :
          CASE out = "sent" ->
                  /\ sent' = Message("all_timers", chan[c].snap,
                                     MapGet(clients, chan[c].userId), "conn", c)
                  /\ chan' = [chan EXCEPT ![c].pc = "done", ![c].snap = <<>>]
                  /\ alive' = alive
            [] out = "dropped" ->
                  /\ sent' = NoMsg
                  /\ chan' = [chan EXCEPT ![c].pc = "done", ![c].snap = <<>>]
                  /\ alive' = alive
            [] OTHER ->
                  /\ sent' = NoMsg
                  /\ chan' = [chan EXCEPT ![c].pc = "failed", ![c].err = out,
                                          ![c].snap = <<>>]
                  /\ Unhandled
    /\ upgrade' = NoUpgrade /\ resp' = NoResp
    /\ UNCHANGED <<now, sessions, issued, timers, clients, reqs, ticks>>

\* ------------------------------------------------------------------- tick
\* the state of `for (const userId of clients.keys())` after next()
Walk(t, m) ==
    IF MapNext(m, t.pos) = 0
    THEN [t EXCEPT !.pc = "done", !.snap = <<>>]
    ELSE [t EXCEPT !.pc = "fetch", !.pos = MapNext(m, t.pos),
                    !.userId = m[MapNext(m, t.pos)].key, !.snap = <<>>]

\* the interval callback fires: the iterator is created and advanced once.
\* map0 remembers the registry at that moment and sentTo the users served.
Tick ==
    /\ alive
    /\ ticks' = Append(ticks, Walk([pc |-> "start", pos |-> 0, userId |-> None,
                                    snap |-> <<>>, map0 |-> clients, sentTo |-> {},
                                    err |-> None], clients))
    /\ Quiet
    /\ UNCHANGED <<alive, now, sessions, issued, timers, clients, chan, reqs>>

\* sendActiveTimersMsg: the database answers fetchActiveTimers
TickFetchDb(k) ==
    /\ alive
    /\ k \in DOMAIN ticks
    /\ ticks[k].pc = "fetch"
    /\ ticks' = [ticks EXCEPT ![k].pc = "send",
                              ![k].snap = fetchActiveTimers(timers, ticks[k].userId)]
    /\ Quiet
    /\ UNCHANGED <<alive, now, sessions, issued, timers, clients, chan, reqs>>

\* sendActiveTimersMsg: clients.get(userId).send(msg), then the loop goes on
sendActiveTimersMsg(k) ==
    /\ alive
    /\ k \in DOMAIN ticks
    /\ ticks[k].pc = "send"
    /\ \E out \in SendOutcomes(clients, chan, ticks[k].userId) :
          CASE out = "sent" ->
                  /\ sent' = Message("active_timers", ticks[k].snap,
                                     MapGet(clients, ticks[k].userId), "tick", k)
                  /\ ticks' = [ticks EXCEPT ![k] =
                                  Walk([@ EXCEPT !.sentTo = @ \cup {ticks[k].userId}],
                                       clients)]
                  /\ alive' = alive
            [] out = "dropped" ->
                  /\ sent' = NoMsg
                  /\ ticks' = [ticks EXCEPT ![k] = Walk(@, clients)]
                  /\ alive' = alive
            [] OTHER ->
                  /\ sent' = NoMsg
                  /\ ticks' = [ticks EXCEPT ![k].pc = "failed", ![k].err = out,
                                            ![k].snap = <<>>]
                  /\ Unhandled
    /\ upgrade' = NoUpgrade /\ resp' = NoResp
    /\ UNCHANGED <<now, sessions, issued, timers, clients, chan, reqs>>

\* --------------------------------------------------------- specifications
TimerIds == {NoSuchId} \cup {timers[i].id : i \in DOMAIN timers}
Issued == 1..issued

\* the steps of the start commands that are under way
StartCommands ==
    \/ \E r \in DOMAIN reqs : CreateTimerDb(r)
    \/ \E r \in DOMAIN reqs : FetchAllDb(r)
    \/ \E r \in DOMAIN reqs : sendAllTimersMsg(r)

\* the steps of the start and stop commands that are under way
Commands ==
    \/ StartCommands
    \/ \E r \in DOMAIN reqs : StopTimerDb(r)

\* the steps of the sockets that were accepted
Sockets ==
    \/ \E c \in DOMAIN chan : BeginClose(c)
    \/ \E c \in DOMAIN chan : OnClose(c)
    \/ \E c \in DOMAIN chan : ConnectionFetchDb(c)
    \/ \E c \in DOMAIN chan : ConnectionSend(c)

\* Everything the server does.
Next ==
    \/ now < MaxTime /\ Advance
    \/ issued < MaxSessions /\ \E u \in Users : Login(u)
    \/ Len(reqs) < MaxReqs /\ \E cookie \in Issued \cup {NoCookie, UnknownSid} :
          \/ PostTimers(cookie)
          \/ \E id \in TimerIds : PostStop(cookie, id)
          \/ GetLogout(cookie)
    \/ Commands
    \/ \E r \in DOMAIN reqs : DeleteSessionDb(r)
    \/ UpgradeNoCookieHeader
    \/ UpgradeNoUserId
    \/ Len(chan) < MaxChannels /\ \E u \in Users : Connection(u)
    \/ Sockets
    \/ Len(ticks) < MaxTicks /\ Tick
    \/ \E k \in DOMAIN ticks : TickFetchDb(k)
    \/ \E k \in DOMAIN ticks : sendActiveTimersMsg(k)

Spec == Init /\ [][Next]_vars

\* The commands of one logged-in user under a running clock, with sockets
\* opening and closing around them.
NextCmd ==
    \/ now < CmdTime /\ Advance
    \/ Len(reqs) < CmdReqs /\ \E cookie \in Issued : PostTimers(cookie)
    \/ Len(reqs) < CmdReqs /\ \E cookie \in Issued, id \in TimerIds : PostStop(cookie, id)
    \/ Commands
    \/ Len(chan) < CmdChannels /\ \E u \in Users : Connection(u)
    \/ Sockets

SpecCmd == InitOneUser /\ [][NextCmd]_vars

\* The commands of two connected users and the pushes they cause, with the
\* sockets closing under them and no clock.
NextPush ==
    \/ Len(reqs) < PushReqs /\ \E cookie \in Issued : PostTimers(cookie)
    \/ Len(reqs) < PushReqs /\ \E cookie \in Issued, id \in TimerIds : PostStop(cookie, id)
    \/ Commands
    \/ \E c \in DOMAIN chan : BeginClose(c)
    \/ \E c \in DOMAIN chan : OnClose(c)

SpecPush == InitConnected /\ [][NextPush]_vars

\* The commands and logouts of two connected users, with session tokens that
\* are valid, missing, never issued or revoked.
NextAuth ==
    \/ Len(reqs) < AuthReqs /\ \E cookie \in Issued \cup {NoCookie, UnknownSid} :
          \/ PostTimers(cookie)
          \/ \E id \in TimerIds : PostStop(cookie, id)
          \/ GetLogout(cookie)
    \/ Commands
    \/ \E r \in DOMAIN reqs : DeleteSessionDb(r)

SpecAuth == InitConnected /\ [][NextAuth]_vars

\* The tick over two connected users who own running and stopped timers,
\* with commands and a running clock under it.
NextActive ==
    \/ now < ActiveTime /\ Advance
    \/ Len(reqs) < ActiveReqs /\ \E cookie \in Issued : PostTimers(cookie)
    \/ Len(reqs) < ActiveReqs /\ \E cookie \in Issued, id \in TimerIds : PostStop(cookie, id)
    \/ Commands
    \/ Len(ticks) < ActiveTicks /\ Tick
    \/ \E k \in DOMAIN ticks : TickFetchDb(k)
    \/ \E k \in DOMAIN ticks : sendActiveTimersMsg(k)

SpecActive == InitBusy /\ [][NextActive]_vars

\* The commands of two connected users who already own timers, under a
\* running clock.
NextReflect ==
    \/ now < ReflectTime /\ Advance
    \/ Len(reqs) < ReflectReqs /\ \E cookie \in Issued : PostTimers(cookie)
    \/ Len(reqs) < ReflectReqs /\ \E cookie \in Issued, id \in TimerIds : PostStop(cookie, id)
    \/ Commands

SpecReflect == InitBusy /\ [][NextReflect]_vars

\* The registry under the sockets of both users opening, getting their first
\* push and closing.
NextRegistry ==
    \/ Len(chan) < RegistryChannels /\ \E u \in Users : Connection(u)
    \/ Sockets

SpecRegistry == InitLoggedIn /\ [][NextRegistry]_vars

\* The upgrade gate and the registry, with one command.
NextChan ==
    \/ UpgradeNoCookieHeader
    \/ UpgradeNoUserId
    \/ Len(chan) < ChanChannels /\ \E u \in Users : Connection(u)
    \/ Sockets
    \/ Len(reqs) < ChanReqs /\ \E cookie \in Issued : PostTimers(cookie)
    \/ StartCommands

SpecChan == InitLoggedIn /\ [][NextChan]_vars

\* The tick, with sockets opening and closing under it and one command.
NextTick ==
    \/ Len(ticks) < TickTicks /\ Tick
    \/ \E k \in DOMAIN ticks : TickFetchDb(k)
    \/ \E k \in DOMAIN ticks : sendActiveTimersMsg(k)
    \/ Len(chan) < TickChannels /\ \E u \in Users : Connection(u)
    \/ Sockets
    \/ Len(reqs) < TickReqs /\ \E cookie \in Issued : PostTimers(cookie)
    \/ StartCommands

SpecTick == InitLoggedIn /\ [][NextTick]_vars

\* ------------------------------------------------------------------ claims
\* C1: a stopTimer call of the owner on a timer that an earlier call has
\* already stopped returns false (404) and pushes nothing.
C1_StopTwice ==
    [][\A r \in DOMAIN reqs :
          (/\ reqs[r].kind = "stop" /\ reqs[r].pc = "update" /\ reqs'[r].pc # "update"
           /\ \E i \in DOMAIN timers :
                 /\ timers[i].id = reqs[r].id /\ timers[i].userId = reqs[r].user
                 /\ timers[i].end # NoEnd)
          => (/\ resp'.n = r /\ ~resp'.req.ok /\ resp'.req.status = 404
              /\ sent' = NoMsg)]_vars

\* C2: a timer document is never deleted and, once a stop has set its end,
\* no later command changes it.
C2_EndSetOnce ==
    [][/\ Len(timers') >= Len(timers)
       /\ \A i \in DOMAIN timers :
             /\ timers'[i].id = timers[i].id
             /\ (timers[i].end # NoEnd => timers'[i] = timers[i])]_vars

\* C3: a push for a userId that has no entry in `clients` is skipped in
\* silence: nothing is sent and no handler sees an error.
C3_SkipSilently ==
    /\ resp.req.err # "TypeError"
    /\ \A c \in DOMAIN chan : chan[c].err # "TypeError"
    /\ \A k \in DOMAIN ticks : ticks[k].err # "TypeError"

\* C4: a command whose write succeeded is answered 201 (start) or 204 (stop)
\* whatever becomes of its push: no error, no missing response.
C4_AnswerIndependentOfPush ==
    resp.n # 0 =>
        /\ (resp.req.kind = "start" /\ resp.req.tid # NoSuchId => resp.req.status = 201)
        /\ (resp.req.kind = "stop" /\ resp.req.ok => resp.req.status = 204)

\* the sockets of one user, in the order of their registration
SocketsOf(u) == {c \in DOMAIN chan : chan[c].userId = u}
Superseded(c) == \E c2 \in SocketsOf(chan[c].userId) : c2 > c

\* C5: once a second socket is registered for a userId, lookups for that
\* userId give the new socket (as long as it is the newest and its close has
\* not been delivered), and the superseded socket gets no message any more.
C5_Supersede ==
    /\ \A c \in DOMAIN chan :
          (/\ \E c1 \in SocketsOf(chan[c].userId) : c1 < c
           /\ ~Superseded(c)
           /\ chan[c].state # "closed")
          => MapGet(clients, chan[c].userId) = c
    /\ (sent.to # NoWs => ~Superseded(sent.to))

C7_RejectUnidentified ==
    [][upgrade'.cookie \in {"absent", "nouid"} =>
          /\ upgrade'.status = 401
          /\ clients' = clients /\ chan' = chan
          /\ alive']_vars

\* C8: when a tick's walk ends, every userId whose entry was registered from
\* the start of the walk to its end, with its socket open, has been sent the
\* tick's active_timers message, whatever happened to the pushes of the other
\* users. (Stated for the walks that meet no socket half-way through closing,
\* where what ws.send does depends on the version of the ws library.)
C8_TickIsolation ==
    [][\A k \in DOMAIN ticks :
          (/\ ticks[k].pc \notin {"done", "failed"}
           /\ ticks'[k].pc \in {"done", "failed"}
           /\ ticks'[k].err # "NotOpen")
          => \A i \in DOMAIN ticks[k].map0 :
                (/\ ticks[k].map0[i].key # Empty
                 /\ clients[i] = ticks[k].map0[i]
                 /\ chan[clients[i].ws].state = "open")
                => clients[i].key \in ticks'[k].sentTo]_vars

\* C9 (its second half): when the socket has closed before its connection
\* handler reaches the push, the push is skipped without error: nothing is
\* sent to that socket and the handler ends normally.
C9_ClosedBeforeFirstPush ==
    [][\A c \in DOMAIN chan :
          (chan[c].pc = "send" /\ chan'[c].pc # "send" /\ chan[c].state = "closed")
          => (chan'[c].pc = "done" /\ sent'.to # c)]_vars

\* C10: stopTimer by a user who does not own the timer answers 404, as for an
\* id that names no timer, changes no timer and sends nothing; the request is
\* over, so it pushes nothing later either.
C10_StopByOtherUser ==
    [][\A r \in DOMAIN reqs :
          (/\ reqs[r].kind = "stop" /\ reqs[r].pc = "update" /\ reqs'[r].pc # "update"
           /\ \A i \in DOMAIN timers :
                 timers[i].id = reqs[r].id => timers[i].userId # reqs[r].user)
          => (/\ resp'.n = r /\ resp'.req.status = 404 /\ ~resp'.req.ok
              /\ reqs'[r] = Gone
              /\ timers' = timers
              /\ sent' = NoMsg)]_vars

\* user B's stop of A's running timer has just been answered 404 while both
\* A and B have an open registered socket, and the timer is still running
C10_Witness ==
    \E i \in DOMAIN timers :
        /\ resp.req.kind = "stop" /\ resp.req.id = timers[i].id
        /\ timers[i].userId # resp.req.user
        /\ resp.req.status = 404
        /\ timers[i].end = NoEnd
        /\ \A u \in {timers[i].userId, resp.req.user} :
              /\ MapGet(clients, u) # NoWs
              /\ chan[MapGet(clients, u)].state = "open"

\* the request that the step has just received, as the step leaves it
Arrived == IF resp'.n = Len(reqs') THEN resp'.req ELSE reqs'[Len(reqs')]

\* C11: a start or stop command that arrives without a sessionId cookie, with
\* one that was never issued or with one whose session was deleted by logout
\* is answered 401 in the step that receives it, leaves the timers as they
\* are, sends nothing, and has no later step.
C11_Unauthenticated ==
    [][(/\ Len(reqs') = Len(reqs) + 1
        /\ Arrived.kind \in {"start", "stop"}
        /\ \/ Arrived.cookie = NoCookie
           \/ \A s \in sessions : s.sessionId # Arrived.cookie)
       => (/\ resp'.n = Len(reqs')
           /\ resp'.req.status = 401
           /\ reqs'[Len(reqs')] = Gone
           /\ timers' = timers
           /\ sent' = NoMsg)]_vars

\* a stop command with a token that logout has revoked has just been answered
\* 401; it named a running timer whose owner has an open registered socket
C11_Witness ==
    /\ resp.req.kind = "stop" /\ resp.req.status = 401
    /\ resp.req.cookie \in 1..issued
    /\ \A s \in sessions : s.sessionId # resp.req.cookie
    /\ \E i \in DOMAIN timers :
          /\ timers[i].id = resp.req.id /\ timers[i].end = NoEnd
          /\ MapGet(clients, timers[i].userId) # NoWs
          /\ chan[MapGet(clients, timers[i].userId)].state = "open"

\* the _id values of a list of documents or of views
Ids(docs) == {docs[i].id : i \in DOMAIN docs}

\* C12: the load of a tick's push returns exactly the documents that are
\* owned by the userId and have no end at that moment, and the active_timers
\* message then sent carries exactly those timers, every one with isActive
\* true and the userId of the socket's user, to the socket registered for
\* that userId.
C12_ActiveOnly ==
    [][\A k \in DOMAIN ticks :
          /\ (ticks[k].pc = "fetch" /\ ticks'[k].pc = "send")
             => /\ Ids(ticks'[k].snap) =
                      {timers[i].id : i \in {j \in DOMAIN timers :
                            /\ timers[j].userId = ticks[k].userId
                            /\ timers[j].end = NoEnd}}
                /\ \A j \in DOMAIN ticks'[k].snap :
                      ticks'[k].snap[j] = timers[ticks'[k].snap[j].id]
          /\ (sent'.type = "active_timers" /\ sent'.n = k)
             => /\ ticks[k].pc = "send"
                /\ sent'.to = MapGet(clients, ticks[k].userId)
                /\ chan[sent'.to].userId = ticks[k].userId
                /\ Ids(sent'.timers) = Ids(ticks[k].snap)
                /\ Len(sent'.timers) = Len(ticks[k].snap)
                /\ \A j \in DOMAIN sent'.timers :
                      /\ sent'.timers[j].isActive
                      /\ sent'.timers[j].userId = ticks[k].userId]_vars

\* an active_timers message with a timer in it has just been sent to a user
\* who also owns a stopped timer, while another user owns a running timer
C12_Witness ==
    /\ sent.type = "active_timers"
    /\ sent.timers # <<>>
    /\ \E i, j \in DOMAIN timers :
          /\ timers[i].userId = chan[sent.to].userId /\ timers[i].end # NoEnd
          /\ timers[j].userId # chan[sent.to].userId /\ timers[j].end = NoEnd

\* the views of timer id in a message
ViewsOf(msg, id) == {j \in DOMAIN msg.timers : msg.timers[j].id = id}

\* the all_timers message of command r lists only timers of r's user
OnlyOwnTimers(r) ==
    \A j \in DOMAIN sent'.timers : sent'.timers[j].userId = reqs[r].user

\* the all_timers message of the stop command r shows its timer as stopped
StoppedInPush(r) ==
    /\ ViewsOf(sent', reqs[r].id) # {}
    /\ \A j \in ViewsOf(sent', reqs[r].id) :
          /\ ~sent'.timers[j].isActive
          /\ "duration" \in DOMAIN sent'.timers[j]
          /\ "progress" \notin DOMAIN sent'.timers[j]

\* C13 as stated: the all_timers message a successful command pushes lists
\* only the owner's timers; after startTimer it has the new timer with
\* isActive true, after stopTimer it has that timer with isActive false, a
\* duration and no progress.
C13_PushReflectsCommand ==
    [][\A r \in DOMAIN reqs :
          (sent'.src = "req" /\ sent'.n = r)
          => /\ OnlyOwnTimers(r)
             /\ reqs[r].kind = "start"
                => /\ ViewsOf(sent', reqs[r].tid) # {}
                   /\ \A j \in ViewsOf(sent', reqs[r].tid) : sent'.timers[j].isActive
             /\ reqs[r].kind = "stop" => StoppedInPush(r)]_vars

\* C13 amended: as above, but after startTimer the new timer is listed with
\* isActive true only if no stopTimer had reached it when the push loaded its
\* snapshot; it is always listed, and always active when it is still running
\* at the send.
C13_PushReflectsCommandUnlessStopped ==
    [][\A r \in DOMAIN reqs :
          /\ (reqs[r].kind = "start" /\ reqs[r].pc = "fetch" /\ reqs'[r].pc = "send")
             => \E j \in DOMAIN reqs'[r].snap :
                   /\ reqs'[r].snap[j].id = reqs[r].tid
                   /\ reqs'[r].snap[j] = timers[reqs[r].tid]
          /\ (sent'.src = "req" /\ sent'.n = r)
             => /\ OnlyOwnTimers(r)
                /\ reqs[r].kind = "start"
                   => /\ ViewsOf(sent', reqs[r].tid) # {}
                      /\ \A j \in ViewsOf(sent', reqs[r].tid) :
                            /\ \E i \in DOMAIN reqs[r].snap :
                                  /\ reqs[r].snap[i].id = reqs[r].tid
                                  /\ sent'.timers[j].isActive
                                        = (reqs[r].snap[i].end = NoEnd)
                            /\ timers[reqs[r].tid].end = NoEnd
                               => sent'.timers[j].isActive
                /\ reqs[r].kind = "stop" => StoppedInPush(r)]_vars

\* a startTimer command has just pushed an all_timers message that shows its
\* new timer as stopped, because a stopTimer of that timer got in before the
\* load, while another user owns timers that the message leaves out
C13_Witness ==
    /\ sent.src = "req" /\ sent.type = "all_timers"
    /\ resp.n = sent.n /\ resp.req.kind = "start" /\ resp.req.status = 201
    /\ \E j \in DOMAIN sent.timers :
          sent.timers[j].id = resp.req.tid /\ ~sent.timers[j].isActive
    /\ \E i \in DOMAIN timers : timers[i].userId # resp.req.user
    /\ Len(sent.timers) > 1

\* a view carries exactly one of progress and duration
OneOfProgressDuration(v) ==
    ("progress" \in DOMAIN v) # ("duration" \in DOMAIN v)

\* C14: for every stored timer document and every time of the clock, the
\* view has isActive exactly when the document has no end, carries progress
\* (time - start) and no duration when active, duration (end - start) and no
\* progress when stopped; the views in a message that is sent are of that form.
C14_Projection ==
    /\ \A i \in DOMAIN timers, at \in 0..ReflectTime :
          LET v == TimerViewModel(timers[i], at)
          IN  /\ v.isActive = (timers[i].end = NoEnd)
              /\ OneOfProgressDuration(v)
              /\ v.isActive
                 => "progress" \in DOMAIN v /\ v.progress = at - timers[i].start
              /\ ~v.isActive
                 => "duration" \in DOMAIN v
                    /\ v.duration = timers[i].end - timers[i].start
    /\ \A j \in DOMAIN sent.timers : OneOfProgressDuration(sent.timers[j])

\* a message has just been sent that carries a running timer with a progress
\* above 0 and a stopped timer with a duration above 0
C14_Witness ==
    \E i, j \in DOMAIN sent.timers :
        /\ sent.timers[i].isActive /\ sent.timers[i].progress > 0
        /\ ~sent.timers[j].isActive /\ sent.timers[j].duration > 0

\* the live entries of the registry for userId
EntriesOf(m, userId) == {i \in DOMAIN m : m[i].key = userId}

\* C15: the registry never has two entries for one userId, and a connection
\* for a userId that has an entry puts the new socket into that entry: the
\* number of entries stays and clients.get(userId) is the new socket.
C15_OneChannelPerUser ==
    /\ [](\A u \in Users : Cardinality(EntriesOf(clients, u)) <= 1)
    /\ [][(upgrade'.status = 101 /\ MapHas(clients, upgrade'.cookie))
          => /\ Len(clients') = Len(clients)
             /\ \A u \in Users :
                   Cardinality(EntriesOf(clients', u)) = Cardinality(EntriesOf(clients, u))
             /\ MapGet(clients', upgrade'.cookie) = Len(chan')]_vars

\* a second socket has just been registered for a user whose first socket is
\* still open, and the registry has one entry for that user
C15_Witness ==
    /\ upgrade.status = 101
    /\ \E c \in DOMAIN chan :
          /\ c < Len(chan)
          /\ chan[c].userId = upgrade.cookie /\ chan[c].state = "open"
    /\ chan[Len(chan)].userId = upgrade.cookie
    /\ Cardinality(EntriesOf(clients, upgrade.cookie)) = 1
    /\ MapGet(clients, upgrade.cookie) = Len(chan)

\* C16: every timer document has no end or an end that is not before its
\* start, whatever start and stop commands ran while the clock moved on.
C16_EndNotBeforeStart ==
    \A i \in DOMAIN timers :
        timers[i].end = NoEnd \/ timers[i].end >= timers[i].start

\* a timer started after the clock had moved has been stopped
C16_Witness ==
    \E i \in DOMAIN timers :
        /\ timers[i].start > 0
        /\ timers[i].end # NoEnd
        /\ timers[i].end >= timers[i].start

\* C17: a step takes the registry entry of a userId away only if it is the
\* close event of the socket that the entry holds; the close of a socket
\* that was replaced leaves the entry of the newer socket in place.
C17_RemovedOnlyByOwnClose ==
    [][\A u \in Users :
          (MapGet(clients, u) # NoWs /\ MapGet(clients', u) # MapGet(clients, u))
          => \/ upgrade'.status = 101 /\ upgrade'.cookie = u
             \/ /\ chan[MapGet(clients, u)].state = "closing"
                /\ chan'[MapGet(clients, u)].state = "closed"]_vars

\* C18: every socket the registry holds is one whose close event has not been
\* delivered, and a user all of whose sockets have had their close event has
\* no entry.
C18_NoClosedChannelRegistered ==
    /\ \A i \in DOMAIN clients :
          clients[i].key # Empty => chan[clients[i].ws].state # "closed"
    /\ \A u \in Users :
          (SocketsOf(u) # {} /\ \A c \in SocketsOf(u) : chan[c].state = "closed")
          => ~MapHas(clients, u)

\* both sockets that were opened for one user have had their close event
\* and the registry has no entry for the user
C18_Witness ==
    \E u \in Users :
        /\ Cardinality(SocketsOf(u)) = 2
        /\ \A c \in SocketsOf(u) : chan[c].state = "closed"
        /\ ~MapHas(clients, u)

\* C19: when a command pushes its all_timers message and no other command of
\* the same user is still under way, the message is a snapshot of the user's
\* timers as they are then: it is the last message of that burst of commands
\* and must not be older than the collection.
C19_LastPushIsFinal ==
    [][\A r \in DOMAIN reqs :
          (/\ sent'.src = "req" /\ sent'.n = r
           /\ \A r2 \in DOMAIN reqs' : reqs'[r2].user # reqs[r].user)
          => reqs[r].snap = fetchAllTimers(timers, reqs[r].user)]_vars

\* C20: a socket is registered for a userId only by an upgrade made while a
\* session of that user exists; who knows the user id alone, or held a
\* session that logout deleted, registers nothing.
C20_ChannelNeedsSession ==
    [][upgrade'.status = 101
       => \E s \in sessions : s.userId = upgrade'.cookie]_vars

====
